---- MODULE Spec2Model ----
(***************************************************************************)
(* State-machine model of the finder-linux launcher popup.                 *)
(*   src/main.py : SearchBar / MyApp, the popup driven by global hotkeys   *)
(*   src/temp.py : AppWindow / MyApplication, the windowed single-shot     *)
(*                 variant without global hotkeys                          *)
(* Strings are sequences of one-character strings, so that strip(),        *)
(* lower() and the substring test `in` are computed, not assumed.          *)
(***************************************************************************)
EXTENDS Integers, Sequences, FiniteSets, TLC

\* ------------------------------------------------------------------ bounds
MaxApps == 3        \* longest descriptor list drawn by FilterInit
MaxTextLen == 3     \* longest raw query text typed under FilterSpec
MaxPosts == 3       \* most hotkey callbacks that post to the idle queue
MaxDowns == 4       \* most consecutive Down presses counted by `downs`

\* ----------------------------------------------------------------- strings
Chars == {"a", "b", "A", " "}

LowerChar(c) == CASE c = "A" -> "a" [] c = "B" -> "b" [] OTHER -> c

\* str.lower()
lower(s) == [i \in 1..Len(s) |-> LowerChar(s[i])]

IsSpace(c) == c = " "

RECURSIVE lstrip(_)
lstrip(s) == IF s # << >> /\ IsSpace(Head(s)) THEN lstrip(Tail(s)) ELSE s

RECURSIVE rstrip(_)
rstrip(s) ==
    IF s # << >> /\ IsSpace(s[Len(s)]) THEN rstrip(SubSeq(s, 1, Len(s) - 1)) ELSE s

\* str.strip()
strip(s) == rstrip(lstrip(s))

\* Python `q in s` on strings
Contains(q, s) ==
    \E i \in 0..(Len(s) - Len(q)) : SubSeq(s, i + 1, i + Len(q)) = q

\* a normalisation that forgets strip()
NormalizeNoStrip(t) == lower(t)

\* the normalisation of on_search_changed: get_text().strip().lower()
Normalize(t) == lower(strip(t))

\* ------------------------------------------------------------- descriptors
\* A descriptor is [display_name, description, keywords].  description is an
\* optional string: << >> is None, <<s>> is the string s.  keywords is the
\* list get_keywords() returns (empty when the entry has none).
NoDescription == << >>
Some(s) == <<s>>

HasDescription(d) == d.description # NoDescription
\* Python truthiness of get_description(): None and "" are both false
DescriptionTruthy(d) == HasDescription(d) /\ d.description[1] # << >>

Desc(n, ds, kw) == [display_name |-> n, description |-> ds, keywords |-> kw]

Pool ==
    { Desc(<<"A", "b">>, NoDescription, << >>),
      Desc(<<"b">>, Some(<<"B", "a">>), << >>),
      Desc(<<"b">>, NoDescription, << <<"b">>, <<"a", "A">> >>),
      Desc(<<"B", " ", "b">>, Some(<< >>), << <<"B">> >>) }

RECURSIVE SeqsUpTo(_, _)
SeqsUpTo(S, n) ==
    IF n = 0 THEN {<< >>}
    ELSE LET shorter == SeqsUpTo(S, n - 1)
         IN shorter \cup {Append(s, x) : s \in shorter, x \in S}


\* ------------------------------------------------------------------ filter
\* the condition of filter_applications in src/main.py: name or description
MatchesMain(q, d) ==
    \/ Contains(q, lower(d.display_name))
    \/ (DescriptionTruthy(d) /\ Contains(q, lower(d.description[1])))

\* the condition of filter_applications in src/temp.py: name, description or
\* any keyword
MatchesTemp(q, d) ==
    \/ Contains(q, lower(d.display_name))
    \/ (DescriptionTruthy(d) /\ Contains(q, lower(d.description[1])))
    \/ (d.keywords # << >>
        /\ \E k \in 1..Len(d.keywords) : Contains(q, lower(d.keywords[k])))

Matches(v, q, d) == IF v = "main" THEN MatchesMain(q, d) ELSE MatchesTemp(q, d)

\* a loop that inserts each matching row at the top of the list
RECURSIVE FilterFromPrepend(_, _, _, _)
FilterFromPrepend(v, q, apps, i) ==
    IF i > Len(apps) THEN << >>
    ELSE FilterFromPrepend(v, q, apps, i + 1)
             \o (IF Matches(v, q, apps[i]) THEN <<i>> ELSE << >>)

\* the for loop of filter_applications, from position i on: one row is
\* appended per matching app_info, in the order of all_apps.  A row is
\* represented by the position of its app_info in all_apps.
RECURSIVE FilterFrom(_, _, _, _)
FilterFrom(v, q, apps, i) ==
    IF i > Len(apps) THEN << >>
    ELSE (IF Matches(v, q, apps[i]) THEN <<i>> ELSE << >>)
             \o FilterFrom(v, q, apps, i + 1)

filter_applications(v, q, apps) == FilterFrom(v, q, apps, 1)

\* the rows of the listbox once on_search_changed has rebuilt it
RebuiltRows(v, t, apps) ==
    IF Len(Normalize(t)) > 0 THEN filter_applications(v, Normalize(t), apps)
    ELSE << >>

\* ------------------------------------------------------------------- state
VARIABLES
    variant,          \* "main" (src/main.py) or "temp" (src/temp.py)
    registry,         \* what Gio.DesktopAppInfo.get_all() returns
    pc,               \* position of the main thread in the program
    win,              \* MyApp.win / MyApplication.window: NoWin or an instance
    win_created,      \* number of window instances constructed so far
    all_apps,         \* SearchBar.all_apps
    visible,          \* the window's visibility
    search_text,      \* text of search_entry
    rows,             \* rows of results_listbox, as positions in all_apps
    selected,         \* index of the selected row, NoRow when none
    focus,            \* widget holding the keyboard focus
    scrolled_visible, \* visibility of scrolled_window
    default_size,     \* last set_default_size(width, height)
    idle,             \* GLib idle sources, oldest first: [task, seq]
    posted,           \* number of idle sources posted so far
    hotkey_listener,  \* "none", "running", "stopping", "stopped", "crashed"
    ev,               \* the handler that ran last, with what it returned
    downs,            \* consecutive Down presses since no row was selected
    list_esc          \* the last Escape pressed in the list: whether the
                      \* listener has yet to see it, and the idle source
                      \* its callback posted for it and that has yet to run

vars == <<variant, registry, pc, win, win_created, all_apps, visible,
          search_text, rows, selected, focus, scrolled_visible, default_size,
          idle, posted, hotkey_listener, ev, downs, list_esc>>

NoWin == 0
NoRow == -1
NoCount == NoRow
NoApp == 0

RowHeight == 85
HeaderHeight == 50
PopupWidth == 800
TempWidth == 600
TempHeight == 400

Size(w, h) == [width |-> w, height |-> h]

\* no Escape pressed in the list is on its way to the listener, and no idle
\* source stems from one
NoEsc == [owed |-> FALSE, seq |-> 0]

\* the record of a handler run: its name, its thread, whether it consumed the
\* event, the descriptor it asked to launch, whether the external call
\* succeeded, and the idle source it was dispatched from
EvSeq(op, thread, consumed, app, ok, seq) ==
    [op |-> op, thread |-> thread, consumed |-> consumed, app |-> app,
     ok |-> ok, seq |-> seq]

Ev(op, thread, consumed, app, ok) == EvSeq(op, thread, consumed, app, ok, 0)

\* the descriptor lists and the texts the full model types
ScenarioApps ==
    { << >>,
      << Desc(<<"B", " ", "b">>, Some(<< >>), << <<"B">> >>) >>,
      << Desc(<<"A", "b">>, NoDescription, << >>),
         Desc(<<"b">>, Some(<<"B", "a">>), << >>),
         Desc(<<"b">>, NoDescription, << <<"b">>, <<"a", "A">> >>) >> }

ScenarioTexts == { << >>, <<" ">>, <<"b">>, <<"A", " ">> }

FilterApps == SeqsUpTo(Pool, MaxApps)

\* the texts one keystroke away from s: a character typed at the end, or the
\* last character deleted
Edits(s) ==
    {Append(s, c) : c \in IF Len(s) < MaxTextLen THEN Chars ELSE {}}
        \cup (IF s = << >> THEN {} ELSE {SubSeq(s, 1, Len(s) - 1)})


\* ---------------------------------------------------------------- start-up
\* the state when the interpreter starts executing the module
Init ==
    /\ variant \in {"main", "temp"}
    /\ registry \in ScenarioApps
    /\ pc = IF variant = "main" THEN "import" ELSE "activate"
    /\ win = NoWin
    /\ win_created = 0
    /\ all_apps = << >>
    /\ visible = FALSE
    /\ search_text = << >>
    /\ rows = << >>
    /\ selected = NoRow
    /\ focus = "SEARCH_FIELD"
    /\ scrolled_visible = FALSE
    /\ default_size = Size(0, 0)
    /\ idle = << >>
    /\ posted = 0
    /\ hotkey_listener = "none"
    /\ ev = Ev("start", "main", FALSE, NoApp, FALSE)
    /\ downs = 0
    /\ list_esc = NoEsc

uiVars == <<win, win_created, all_apps, visible, search_text, rows, selected,
            focus, scrolled_visible, default_size>>

\* an import guard that reports the missing library and carries on
AfterImportCarryOn(available) == "startup"

\* where the main thread stands after the import guard: `except ImportError:
\* ... sys.exit(1)` ends the process with exit code 1
AfterImport(available) == IF available THEN "startup" ELSE "exit1"

\* `try: from pynput import keyboard / except ImportError: sys.exit(1)`
import_pynput ==
    /\ variant = "main" /\ pc = "import"
    /\ \E available \in BOOLEAN :
          /\ pc' = AfterImport(available)
          /\ ev' = Ev("import_pynput", "main", FALSE, NoApp, available)
    /\ UNCHANGED <<variant, registry, list_esc, uiVars, idle, posted, hotkey_listener, downs>>

\* MyApp.do_startup with setup_global_hotkeys: the listener thread is started
do_startup ==
    /\ variant = "main" /\ pc = "startup"
    /\ hotkey_listener' = "running"
    /\ pc' = "activate"
    /\ ev' = Ev("do_startup", "main", FALSE, NoApp, FALSE)
    /\ UNCHANGED <<variant, registry, list_esc, uiVars, idle, posted, downs>>

\* an activation that builds a window every time
ActivatedWinFresh(w, n) == n + 1

\* `if not self.win: self.win = SearchBar(application=self)`: the instance
\* the application holds after do_activate, n instances having been built
ActivatedWin(w, n) == IF w = NoWin THEN n + 1 ELSE w

\* an activation that forgets present()
NotPresented(v) == v

\* the window's visibility after self.win.present()
Presented(v) == TRUE

\* an activation that forgets search_entry.grab_focus()
FocusLeft(f, fresh) == IF fresh THEN "SEARCH_FIELD" ELSE f

\* the widget with the focus after do_activate: src/main.py ends with
\* `self.win.search_entry.grab_focus()`; src/temp.py only presents the
\* window, whose entry has the focus when the window is new
Refocused(f, fresh) ==
    IF variant = "main" \/ fresh THEN "SEARCH_FIELD" ELSE f

\* do_activate: build the window on first use, present it, focus the entry
ActivateEffect ==
    /\ win' = ActivatedWin(win, win_created)
    /\ win_created' = IF win' # win THEN win_created + 1 ELSE win_created
    /\ IF win' # win
       THEN \* SearchBar.__init__ / AppWindow.__init__
            /\ all_apps' = registry
            /\ search_text' = << >>
            /\ rows' = << >>
            /\ selected' = NoRow
            /\ scrolled_visible' = (variant = "temp")
            /\ default_size' = IF variant = "main" THEN Size(PopupWidth, 0)
                               ELSE Size(TempWidth, TempHeight)
            /\ downs' = 0
       ELSE UNCHANGED <<all_apps, search_text, rows, selected,
                        scrolled_visible, default_size, downs>>
    /\ visible' = Presented(visible)
    /\ focus' = Refocused(focus, win' # win)

\* the activation Gio.Application.run performs before entering the main loop
do_activate_initial ==
    /\ pc = "activate"
    /\ ActivateEffect
    /\ pc' = "loop"
    /\ ev' = Ev("do_activate", "ui", FALSE, NoApp, FALSE)
    /\ UNCHANGED <<variant, registry, list_esc, idle, posted, hotkey_listener>>

\* a later activation of the running primary instance (the program is
\* started again while it runs)
do_activate_again ==
    /\ pc = "loop"
    /\ ActivateEffect
    /\ ev' = Ev("do_activate", "ui", FALSE, NoApp, FALSE)
    /\ UNCHANGED <<variant, registry, list_esc, pc, idle, posted, hotkey_listener>>


\* --------------------------------------------------- hotkey listener thread
\* an idle source that jumps the queue
PostShowFirst(q, n) == <<[task |-> "activate", seq |-> n]>> \o q

\* what GLib.idle_add(self.activate) leaves in the idle queue
PostShow(q, n) == Append(q, [task |-> "activate", seq |-> n])

\* what GLib.idle_add(self.win.on_hide_shortcut, None, None) leaves in it
PostHide(q, n) == Append(q, [task |-> "hide", seq |-> n])

\* MyApp.on_show_shortcut, called by pynput on the listener thread
on_show_shortcut ==
    /\ variant = "main" /\ hotkey_listener = "running"
    /\ posted < MaxPosts
    /\ idle' = PostShow(idle, posted + 1)
    /\ posted' = posted + 1
    /\ ev' = EvSeq("on_show_shortcut", "listener", FALSE, NoApp, TRUE, posted + 1)
    /\ UNCHANGED <<variant, registry, list_esc, pc, uiVars, hotkey_listener, downs>>

\* the listener's '<esc>' hotkey fires for an Escape pressed in the list as
\* for any other: the callback's idle source n is the one that press caused
EscSeen(e, n) == IF e.owed THEN [owed |-> FALSE, seq |-> n] ELSE e

\* the Escape just pressed in the window is also on its way to the listener's
\* '<esc>' hotkey, which sees every key press of the session while it runs
EscPressed(e, l) == IF l = "running" THEN [owed |-> TRUE, seq |-> e.seq] ELSE e

\* MyApp.on_hide_shortcut, called by pynput on the listener thread.  The
\* argument self.win.on_hide_shortcut is evaluated on this thread: with
\* self.win still None it raises AttributeError, nothing is posted, and pynput
\* stops a listener whose callback raised.
on_hide_shortcut_global ==
    /\ variant = "main" /\ hotkey_listener = "running"
    /\ posted < MaxPosts
    /\ IF win = NoWin
       THEN /\ hotkey_listener' = "crashed"
            /\ UNCHANGED <<idle, posted, list_esc>>
            /\ ev' = Ev("on_hide_shortcut_global", "listener", FALSE, NoApp, FALSE)
       ELSE /\ hotkey_listener' = hotkey_listener
            /\ idle' = PostHide(idle, posted + 1)
            /\ posted' = posted + 1
            /\ ev' = EvSeq("on_hide_shortcut_global", "listener", FALSE, NoApp,
                           TRUE, posted + 1)
            /\ list_esc' = EscSeen(list_esc, posted + 1)
    /\ UNCHANGED <<variant, registry, pc, uiVars, downs>>

\* ------------------------------------------------------- the GLib main loop
\* SearchBar.on_hide_shortcut: set_visible(False), nothing else
HideEffect ==
    /\ visible' = FALSE
    /\ UNCHANGED <<win, win_created, all_apps, search_text, rows, selected,
                   focus, scrolled_visible, default_size, downs>>

\* the idle queue once the main loop has dispatched its oldest source (both
\* callbacks return a false value, so the source is removed)
Dispatched(q) == Tail(q)

\* the main loop runs the oldest idle source: self.activate
idle_activate ==
    /\ pc = "loop" /\ idle # << >> /\ Head(idle).task = "activate"
    /\ ActivateEffect
    /\ idle' = Dispatched(idle)
    /\ ev' = EvSeq("idle_activate", "ui", FALSE, NoApp, FALSE, Head(idle).seq)
    /\ UNCHANGED <<variant, registry, list_esc, pc, posted, hotkey_listener>>

\* the idle source n has run: an Escape pressed in the list that caused it
\* has had all its effects
EscDone(e, n) == IF e.seq = n THEN [owed |-> e.owed, seq |-> 0] ELSE e

\* the main loop runs the oldest idle source: self.win.on_hide_shortcut
idle_hide ==
    /\ pc = "loop" /\ idle # << >> /\ Head(idle).task = "hide"
    /\ HideEffect
    /\ idle' = Dispatched(idle)
    /\ ev' = EvSeq("idle_hide", "ui", FALSE, NoApp, FALSE, Head(idle).seq)
    /\ list_esc' = EscDone(list_esc, Head(idle).seq)
    /\ UNCHANGED <<variant, registry, pc, posted, hotkey_listener>>

\* key and pointer events reach the window only while it is shown
Interactive == pc = "loop" /\ win # NoWin /\ visible

\* the window-local Escape shortcut of setup_shortcuts (the list's own key
\* controller consumes Escape first when the list has the focus)
on_hide_shortcut_local ==
    /\ variant = "main" /\ Interactive /\ focus = "SEARCH_FIELD"
    /\ HideEffect
    /\ ev' = Ev("on_hide_shortcut_local", "ui", TRUE, NoApp, FALSE)
    /\ UNCHANGED <<variant, registry, list_esc, pc, idle, posted, hotkey_listener>>

\* the count of consecutive Down presses after a handler other than Down
DownsReset(sel) == IF sel = NoRow THEN 0 ELSE NoCount

\* a selection that outlives the rows
SelectedKept(sel) == sel

\* the selection once every row, the selected one included, has been removed
\* from the list box
SelectedAfterClear(sel) == NoRow

\* a resize without the branch for an empty list
ResizedNoReset(n) == Size(PopupWidth, (n * RowHeight) + HeaderHeight)

\* the size on_search_changed asks for with n rows listed:
\* `set_default_size(800, (num_results * 85) + 50)`, or
\* `set_default_size(800, 0)` when there is none
Resized(n) ==
    IF n > 0 THEN Size(PopupWidth, (n * RowHeight) + HeaderHeight)
    ELSE Size(PopupWidth, 0)

\* on_search_changed: the user edits the entry to t; every row is removed
\* (which clears the selection), the filter refills the list, and
\* src/main.py then resizes the window
on_search_changed(t) ==
    /\ Interactive /\ focus = "SEARCH_FIELD"
    /\ t # search_text
    /\ search_text' = t
    /\ rows' = RebuiltRows(variant, t, all_apps)
    /\ selected' = SelectedAfterClear(selected)
    /\ IF variant = "main"
       THEN /\ scrolled_visible' = (Len(rows') > 0)
            /\ default_size' = Resized(Len(rows'))
       ELSE UNCHANGED <<scrolled_visible, default_size>>
    /\ downs' = 0
    /\ ev' = Ev("on_search_changed", "ui", FALSE, NoApp, FALSE)
    /\ UNCHANGED <<variant, registry, list_esc, pc, win, win_created, all_apps, visible,
                   focus, idle, posted, hotkey_listener>>


\* a Down that starts over at the first row after the last one
NextDownWrap(cur, n) == (cur + 1) % n

\* the row selected after Down: `if current_index < num_rows - 1` select the
\* next row, with current_index = -1 when no row is selected
NextDown(cur, n) == IF cur < n - 1 THEN cur + 1 ELSE cur

\* the row selected after Up: the previous row when one is selected and it is
\* not the first
NextUp(cur) == IF cur # NoRow /\ cur > 0 THEN cur - 1 ELSE cur

Keys == {"Down", "Up", "Other"}
ListKeys == {"Escape", "Down", "Up", "Other"}

\* the name under which ev records a key press in the entry / in the list
SearchKeyOp(key) ==
    CASE key = "Down" -> "search_Down" [] key = "Up" -> "search_Up"
      [] OTHER -> "search_Other"

ListKeyOp(key) ==
    CASE key = "Down" -> "list_Down" [] key = "Up" -> "list_Up"
      [] key = "Escape" -> "list_Escape" [] OTHER -> "list_Other"

\* SearchBar.on_search_key_pressed (src/main.py)
on_search_key_pressed_main(key) ==
    /\ variant = "main" /\ Interactive /\ focus = "SEARCH_FIELD"
    /\ key = "Down" => downs < MaxDowns
    /\ IF key \in {"Down", "Up"} /\ Len(rows) > 0
       THEN /\ selected' = IF key = "Down" THEN NextDown(selected, Len(rows))
                           ELSE NextUp(selected)
            /\ downs' = IF key = "Down"
                        THEN (IF downs = NoCount THEN NoCount ELSE downs + 1)
                        ELSE DownsReset(selected')
            /\ ev' = Ev(SearchKeyOp(key), "ui", TRUE, NoApp, FALSE)
       ELSE /\ selected' = selected
            /\ downs' = DownsReset(selected)
            /\ ev' = Ev(SearchKeyOp(key), "ui", FALSE, NoApp, FALSE)
    /\ UNCHANGED <<variant, registry, list_esc, pc, win, win_created, all_apps, visible,
                   search_text, rows, focus, scrolled_visible, default_size,
                   idle, posted, hotkey_listener>>

\* a handler that forgets to look whether the list has a row
DownInterceptedAlways(key, n) == key = "Down"

\* `if keyval == Gdk.KEY_Down and len(list(self.results_listbox)) > 0`
DownIntercepted(key, n) == key = "Down" /\ n > 0

\* AppWindow.on_search_key_pressed (src/temp.py): Down with a row in the list
\* moves the focus to the list and selects its first row
on_search_key_pressed_temp(key) ==
    /\ variant = "temp" /\ Interactive /\ focus = "SEARCH_FIELD"
    /\ key = "Down" => downs < MaxDowns
    /\ IF DownIntercepted(key, Len(rows))
       THEN /\ focus' = "RESULT_LIST"
            /\ selected' = 0
            /\ downs' = IF downs = NoCount THEN NoCount ELSE downs + 1
            /\ ev' = Ev(SearchKeyOp(key), "ui", TRUE, NoApp, FALSE)
       ELSE /\ focus' = focus
            /\ selected' = selected
            /\ downs' = DownsReset(selected)
            /\ ev' = Ev(SearchKeyOp(key), "ui", FALSE, NoApp, FALSE)
    /\ UNCHANGED <<variant, registry, list_esc, pc, win, win_created, all_apps, visible,
                   search_text, rows, scrolled_visible, default_size,
                   idle, posted, hotkey_listener>>

\* the row the list box selects by itself when Down or Up reaches it with
\* row cur selected: the neighbouring row, and no wrap at either end
ListCursorMove(key, cur, n) ==
    IF key = "Down" THEN (IF cur < n - 1 THEN cur + 1 ELSE cur)
    ELSE (IF cur > 0 THEN cur - 1 ELSE cur)

\* on_list_key_pressed: Escape in the list gives the focus back to the entry
\* and is consumed; any other key is left to the list box, whose own Down/Up
\* handling moves the selection from the selected row
on_list_key_pressed(key) ==
    /\ Interactive /\ focus = "RESULT_LIST"
    /\ key \in {"Down", "Up"} => selected # NoRow
    /\ key = "Down" => downs < MaxDowns
    /\ key = "Escape" => ~list_esc.owed
    /\ list_esc' = IF key = "Escape" THEN EscPressed(list_esc, hotkey_listener)
                   ELSE list_esc
    /\ focus' = IF key = "Escape" THEN "SEARCH_FIELD" ELSE focus
    /\ selected' = IF key \in {"Down", "Up"}
                   THEN ListCursorMove(key, selected, Len(rows))
                   ELSE selected
    /\ downs' = IF key = "Down"
                THEN (IF downs = NoCount THEN NoCount ELSE downs + 1)
                ELSE DownsReset(selected')
    /\ ev' = Ev(ListKeyOp(key), "ui", key = "Escape", NoApp, FALSE)
    /\ UNCHANGED <<variant, registry, pc, win, win_created, all_apps, visible,
                   search_text, rows, scrolled_visible, default_size,
                   idle, posted, hotkey_listener>>

\* the user moves the keyboard focus into the list (Tab), which the default
\* focus chain of the widgets built in __init__ allows once a row exists
focus_results_list ==
    /\ Interactive /\ focus = "SEARCH_FIELD" /\ Len(rows) > 0
    /\ focus' = "RESULT_LIST"
    /\ downs' = DownsReset(selected)
    /\ ev' = Ev("focus_results_list", "ui", FALSE, NoApp, FALSE)
    /\ UNCHANGED <<variant, registry, list_esc, pc, win, win_created, all_apps, visible,
                   search_text, rows, selected, scrolled_visible, default_size,
                   idle, posted, hotkey_listener>>

\* the hide / quit moved out of the try block: it runs after a failure too
LaunchOutcomeAlways(ok) ==
    /\ visible' = IF variant = "main" THEN FALSE ELSE visible
    /\ pc' = IF variant = "temp" THEN "shutdown" ELSE pc

\* what on_result_activated leaves of visibility and of the main thread's
\* position once app_info.launch has returned (ok) or raised GLib.Error
LaunchOutcome(ok) ==
    /\ visible' = IF ok /\ variant = "main" THEN FALSE ELSE visible
    /\ pc' = IF ok /\ variant = "temp" THEN "shutdown" ELSE pc

\* a handler that launches the first row whatever row was activated
RowAppInfoFirst(rs, r) == rs[1]

\* `app_info = row.app_info`: the descriptor held by row r of the list
RowAppInfo(rs, r) == rs[r + 1]

\* on_result_activated(listbox, row): launch row.app_info; on success
\* src/main.py hides the window and src/temp.py quits the application
ResultActivated(op, r) ==
    /\ \E ok \in BOOLEAN :
          /\ LaunchOutcome(ok)
          /\ ev' = Ev(op, "ui", TRUE, RowAppInfo(rows, r), ok)
    /\ downs' = DownsReset(selected)
    /\ UNCHANGED <<variant, registry, list_esc, win, win_created, all_apps, search_text,
                   rows, selected, focus, scrolled_visible, default_size,
                   idle, posted, hotkey_listener>>

\* the row-activated signal for row r (a click or Enter on that row)
on_result_activated(r) ==
    /\ Interactive /\ r \in 0..(Len(rows) - 1)
    /\ ResultActivated("on_result_activated", r)

\* an Enter that falls back on the first row when none is selected
EnterTargetFirst(sel, n) == IF sel = NoRow /\ n > 0 THEN 0 ELSE sel

\* `selected_row = self.results_listbox.get_selected_row()`: the row Enter
\* activates, NoRow when `if selected_row:` fails
EnterTarget(sel, n) == sel

\* on_search_activate (src/main.py): Enter in the entry activates the selected
\* row and does nothing when no row is selected
on_search_activate ==
    /\ variant = "main" /\ Interactive /\ focus = "SEARCH_FIELD"
    /\ IF EnterTarget(selected, Len(rows)) # NoRow
       THEN ResultActivated("on_search_activate",
                            EnterTarget(selected, Len(rows)))
       ELSE /\ ev' = Ev("on_search_activate", "ui", FALSE, NoApp, FALSE)
            /\ downs' = DownsReset(selected)
            /\ UNCHANGED <<variant, registry, list_esc, pc, uiVars, idle, posted, hotkey_listener>>

\* the user closes the window: the application loses its last window and the
\* main loop of app.run returns
close_request ==
    /\ Interactive
    /\ visible' = FALSE
    /\ pc' = "shutdown"
    /\ ev' = Ev("close_request", "ui", FALSE, NoApp, FALSE)
    /\ UNCHANGED <<variant, registry, list_esc, win, win_created, all_apps, search_text,
                   rows, selected, focus, scrolled_visible, default_size,
                   idle, posted, hotkey_listener, downs>>

\* the listener once `self.hotkey_listener.stop()` has returned: stop() asks
\* the listener thread to end and delivers no further event, and nothing
\* joins the thread, so a running listener is left on its way out
StopRequested(l) == IF l = "running" THEN "stopping" ELSE l

\* MyApp.do_shutdown: stop the listener, then Gtk.Application.do_shutdown
\* (src/temp.py does not override it: only the Gtk part runs)
do_shutdown ==
    /\ pc = "shutdown"
    /\ hotkey_listener' = StopRequested(hotkey_listener)
    /\ visible' = FALSE
    /\ pc' = "exit0"
    /\ ev' = Ev("do_shutdown", "ui", FALSE, NoApp, FALSE)
    /\ UNCHANGED <<variant, registry, list_esc, win, win_created, all_apps, search_text,
                   rows, selected, focus, scrolled_visible, default_size,
                   idle, posted, downs>>

\* the listener thread, asked to stop, leaves its event loop and ends, at a
\* time of its own
listener_exits ==
    /\ hotkey_listener = "stopping"
    /\ hotkey_listener' = "stopped"
    /\ ev' = Ev("listener_exits", "listener", FALSE, NoApp, FALSE)
    /\ UNCHANGED <<variant, registry, list_esc, pc, uiVars, idle, posted, downs>>

Next ==
    \/ import_pynput
    \/ do_startup
    \/ do_activate_initial
    \/ do_activate_again
    \/ on_show_shortcut
    \/ on_hide_shortcut_global
    \/ idle_activate
    \/ idle_hide
    \/ on_hide_shortcut_local
    \/ \E t \in ScenarioTexts : on_search_changed(t)
    \/ \E key \in Keys : on_search_key_pressed_main(key)
    \/ \E key \in Keys : on_search_key_pressed_temp(key)
    \/ \E key \in ListKeys : on_list_key_pressed(key)
    \/ focus_results_list
    \/ \E r \in 0..(Len(rows) - 1) : on_result_activated(r)
    \/ on_search_activate
    \/ close_request
    \/ do_shutdown
    \/ listener_exits

Spec == Init /\ [][Next]_vars


\* the main loop dispatches a pending idle source whenever it is idle
LiveSpec == Init /\ [][Next]_vars /\ WF_vars(idle_activate) /\ WF_vars(idle_hide)

\* ---------------------------------------------- the filter on its own
\* the window right after the first activation, for any descriptor list
FilterInit ==
    /\ variant \in {"main", "temp"}
    /\ registry \in FilterApps
    /\ pc = "loop"
    /\ win = 1
    /\ win_created = 1
    /\ all_apps = registry
    /\ visible = TRUE
    /\ search_text = << >>
    /\ rows = << >>
    /\ selected = NoRow
    /\ focus = "SEARCH_FIELD"
    /\ scrolled_visible = (variant = "temp")
    /\ default_size = IF variant = "main" THEN Size(PopupWidth, 0)
                      ELSE Size(TempWidth, TempHeight)
    /\ idle = << >>
    /\ posted = 0
    /\ hotkey_listener = IF variant = "main" THEN "running" ELSE "none"
    /\ ev = Ev("do_activate", "ui", FALSE, NoApp, FALSE)
    /\ downs = 0
    /\ list_esc = NoEsc

FilterNext == \E t \in Edits(search_text) : on_search_changed(t)

FilterSpec == FilterInit /\ [][FilterNext]_vars


\* ------------------------------------------------------------- properties
RowSet == {rows[k] : k \in 1..Len(rows)}

Min(a, b) == IF a < b THEN a ELSE b

LaunchOps == {"on_result_activated", "on_search_activate"}

\* a hide of the popup has just run: the window-local Escape shortcut, the
\* dispatched global hide, or a successful launch in src/main.py
HideJustRan ==
    \/ ev.op \in {"idle_hide", "on_hide_shortcut_local"}
    \/ (variant = "main" /\ ev.op \in LaunchOps /\ ev.app # NoApp /\ ev.ok)

\* C1: after any hide of the popup the query text is empty and the result
\* set is empty.
C1_HideResetsQuery == HideJustRan => (search_text = << >> /\ rows = << >>)

\* the three substring checks of the filter contract on descriptor d
ClaimedMatch(q, d) ==
    \/ Contains(q, lower(d.display_name))
    \/ (HasDescription(d) /\ Contains(q, lower(d.description[1])))
    \/ (d.keywords # << >>
        /\ \E k \in 1..Len(d.keywords) : Contains(q, lower(d.keywords[k])))

\* C2: for a non-empty normalized query, a descriptor is displayed iff its
\* name, its description or one of its keywords contains the query.
C2_FilterSoundComplete ==
    (win # NoWin /\ Normalize(search_text) # << >>) =>
        \A i \in 1..Len(all_apps) :
            (i \in RowSet) <=> ClaimedMatch(Normalize(search_text), all_apps[i])

\* the raw text is empty or consists of white space only
BlankText(t) == \A i \in 1..Len(t) : t[i] = " "

\* C3: whenever the raw query text is empty or white space only, the result
\* set is the empty sequence, whatever the descriptor list.
C3_BlankQueryNoResults == BlankText(search_text) => rows = << >>

C3_Witness ==
    /\ ev.op = "on_search_changed"
    /\ search_text = <<" ">>
    /\ \E i \in 1..Len(all_apps) : all_apps[i].display_name = <<"B", " ", "b">>
    /\ rows = << >>

\* C4: the displayed rows are a subsequence of all_apps in its order, and
\* descriptors with the same display name (or equal altogether) are each
\* displayed: none is dropped as a duplicate of another.
C4_OrderKeptNoDedup ==
    /\ \A k \in 1..Len(rows) :
          /\ rows[k] \in 1..Len(all_apps)
          /\ k < Len(rows) => rows[k] < rows[k + 1]
    /\ \A i, j \in 1..Len(all_apps) :
          /\ all_apps[i] = all_apps[j] => ((i \in RowSet) <=> (j \in RowSet))
          /\ (/\ all_apps[i].display_name = all_apps[j].display_name
              /\ ~BlankText(search_text)
              /\ Contains(lower(strip(search_text)), lower(all_apps[i].display_name)))
             => (i \in RowSet /\ j \in RowSet)

C4_Witness ==
    /\ ev.op = "on_search_changed"
    /\ Len(rows) >= 2 /\ Len(rows) < Len(all_apps)
    /\ \E k, l \in 1..Len(rows) :
          /\ k < l
          /\ all_apps[rows[k]].display_name = all_apps[rows[l]].display_name


IsDown(e) == e.op \in {"search_Down", "list_Down"}
IsUp(e) == e.op \in {"search_Up", "list_Up"}

\* the k-th consecutive Down since no row was selected leaves row
\* min(k-1, N-1) selected, and the selection stays within the rows
CountedDowns ==
    /\ (downs' >= 1 /\ Len(rows') > 0) =>
          selected' = Min(downs' - 1, Len(rows') - 1)
    /\ selected' = NoRow \/ selected' \in 0..(Len(rows') - 1)

C6_SelectionValid ==
    /\ selected = NoRow \/ selected \in 0..(Len(rows) - 1)
    /\ ev.op = "on_search_changed" => selected = NoRow

C6_Witness ==
    /\ ev.op = "on_search_changed" /\ Len(rows) >= 2 /\ selected = NoRow
    /\ search_text # << >>

\* C7: a launch that reports an error leaves the window visible, the process
\* running, and the query, the rows, the selection and the focus unchanged.
C7_LaunchFailureKeepsState ==
    [][ (ev'.op \in LaunchOps /\ ev'.app # NoApp /\ ~ev'.ok) =>
            /\ visible /\ visible'
            /\ pc = "loop" /\ pc' = "loop"
            /\ UNCHANGED <<search_text, rows, selected, focus, win>> ]_vars

C7_Witness ==
    /\ ev.op \in LaunchOps /\ ev.app # NoApp /\ ~ev.ok
    /\ visible /\ pc = "loop" /\ selected # NoRow /\ Len(rows) >= 2

HotkeyCallbacks == {"on_show_shortcut", "on_hide_shortcut_global"}

\* C8: a hotkey callback on the listener thread touches no window state: all
\* it does is post one task to the idle queue.
C8_ListenerOnlyPosts ==
    [][ ev'.op \in HotkeyCallbacks =>
            /\ UNCHANGED uiVars
            /\ Len(idle') = Len(idle) + 1
            /\ hotkey_listener' = hotkey_listener ]_vars

\* the activation posted as idle source n is still waiting
ShowPending(n) ==
    \E i \in 1..Len(idle) : idle[i] = [task |-> "activate", seq |-> n]

\* C9: an activation posted by the show hotkey is eventually run by the main
\* loop, as long as the loop runs, and that run leaves the window visible
\* with the focus in the search field.
C9_ShowEventuallyRuns ==
    \A n \in 1..MaxPosts :
        [](  (ShowPending(n) /\ pc = "loop")
          => <>( \/ (ev.op = "idle_activate" /\ ev.seq = n
                        /\ visible /\ focus = "SEARCH_FIELD")
                 \/ pc # "loop" ))

C9_Witness ==
    /\ ev.op = "idle_activate" /\ ev.seq >= 2
    /\ visible /\ focus = "SEARCH_FIELD" /\ pc = "loop"
    /\ Len(rows) >= 1

\* C10: one window instance is built, by the first activation, and every
\* later activation finds that same instance.
C10_OneWindow ==
    /\ win_created <= 1
    /\ win \in {NoWin, 1}
    /\ (win = 1) <=> (win_created = 1)
    /\ ev.op \in {"do_activate", "idle_activate"} => win = 1
    /\ pc \in {"import", "startup", "activate", "exit1"} => win = NoWin

C10_Witness ==
    /\ ev.op = "idle_activate" /\ ev.seq = MaxPosts
    /\ win = 1 /\ win_created = 1

\* the import of the hotkey library has just failed
ImportFailed == ev.op = "import_pynput" /\ ~ev.ok

\* C11: when the hotkey library is missing at start-up the process has exited
\* with code 1 with no window built, no listener started and nothing posted
\* to the main loop, and no handler runs from there on.
C11_MissingHotkeysExit ==
    /\ ImportFailed => pc = "exit1"
    /\ pc = "exit1" =>
          /\ ImportFailed
          /\ win = NoWin /\ win_created = 0 /\ ~visible
          /\ hotkey_listener = "none"
          /\ idle = << >> /\ posted = 0
          /\ ~ENABLED Next

C11_Witness ==
    /\ pc = "exit1" /\ ImportFailed /\ variant = "main"
    /\ registry # << >>

MarshaledCallbacks == {"idle_activate", "idle_hide"}

\* C12: when the application shuts down the listener is stopped, and its
\* thread has ended, before the UI is torn down; from then on no hotkey
\* callback is invoked and no marshaled callback runs; and the listener is
\* stopped at most once (only by the one shutdown, which is final).
C12_ShutdownOrder ==
    [][ /\ pc' = "exit0" => hotkey_listener' \in {"none", "stopped", "crashed"}
        /\ pc = "exit0" =>
              /\ pc' = "exit0"
              /\ ev'.op \notin (HotkeyCallbacks \cup MarshaledCallbacks)
        /\ ev'.op = "do_shutdown" => (pc = "shutdown" /\ pc' = "exit0")
        /\ (hotkey_listener # hotkey_listener' /\ hotkey_listener = "running")
              => ev'.op \in {"do_shutdown", "on_hide_shortcut_global"} ]_vars

C14_ListEscapeOnlyMovesFocus ==
    [][ /\ ev'.op = "list_Escape" =>
              /\ focus = "RESULT_LIST" /\ focus' = "SEARCH_FIELD"
              /\ ev'.consumed
              /\ UNCHANGED <<selected, search_text, rows, visible>>
        /\ (ev'.op = "idle_hide" /\ list_esc.seq > 0
                /\ ev'.seq = list_esc.seq)
              => UNCHANGED <<selected, search_text, rows, visible>> ]_vars

\* C15: the main loop runs the posted show and hide requests in the order
\* the listener posted them: the waiting requests are in posting order, the
\* oldest is the one that runs, and when the last one waiting has run it is
\* the last one posted and the window is visible iff that one was a show.
C15_MarshaledFifo ==
    [][ /\ \A i, j \in 1..Len(idle') : i < j => idle'[i].seq < idle'[j].seq
        /\ \A i \in 1..Len(idle') : idle'[i].seq \in 1..posted'
        /\ ev'.op \in HotkeyCallbacks /\ ev'.ok =>
              /\ posted' = posted + 1
              /\ idle' = Append(idle, [task |-> IF ev'.op = "on_show_shortcut"
                                                THEN "activate" ELSE "hide",
                                       seq |-> posted'])
        /\ ev'.op \in MarshaledCallbacks =>
              /\ idle # << >> /\ ev'.seq = Head(idle).seq
              /\ (ev'.op = "idle_activate") <=> (Head(idle).task = "activate")
              /\ idle' = Tail(idle)
              /\ \A i \in 1..Len(idle') : ev'.seq < idle'[i].seq
              /\ idle' = << >> =>
                    /\ ev'.seq = posted
                    /\ visible' <=> (ev'.op = "idle_activate") ]_vars

C15_Witness ==
    /\ ev.op = "idle_hide" /\ ev.seq = posted /\ posted = MaxPosts
    /\ idle = << >> /\ ~visible /\ pc = "loop"

ShowOps == {"do_activate", "idle_activate"}

\* C17: in src/main.py every show (do_activate, run directly or from the
\* show hotkey's idle source) leaves the window visible with the focus in the
\* search field, whether the window was hidden or visible before, and a show
\* that follows a show changes nothing of the window.
C17_ShowIdempotent ==
    [][ (variant = "main" /\ ev'.op \in ShowOps) =>
            /\ visible' /\ focus' = "SEARCH_FIELD" /\ win' # NoWin
            /\ win # NoWin => UNCHANGED <<win, win_created, all_apps,
                                          search_text, rows, selected,
                                          scrolled_visible, default_size>>
            /\ ev.op \in ShowOps => UNCHANGED uiVars ]_vars

C17_Witness ==
    /\ variant = "main" /\ ev.op = "idle_activate" /\ ev.seq >= 2
    /\ visible /\ focus = "SEARCH_FIELD"
    /\ selected # NoRow /\ idle # << >> /\ Head(idle).task = "activate"

C19_HideCallbackFindsWindow ==
    [][ ev'.op = "on_hide_shortcut_global" =>
            (win # NoWin /\ ev'.ok /\ hotkey_listener' = "running") ]_vars

\* C20: Enter in the search field with no row selected launches nothing and
\* leaves the visibility, the query, the rows and the selection as they are;
\* and whatever is launched is the descriptor of one of the current rows.
C20_EnterWithoutSelection ==
    [][ /\ (ev'.op = "on_search_activate" /\ selected = NoRow) =>
              /\ ev'.app = NoApp /\ ~ev'.ok
              /\ UNCHANGED <<visible, search_text, rows, selected, focus, pc>>
        /\ ev'.app # NoApp =>
              /\ ev'.app \in RowSet
              /\ ev'.app \in 1..Len(all_apps)
              /\ UNCHANGED rows ]_vars

C20_Witness ==
    /\ ev.op = "on_search_activate" /\ ev.app = NoApp
    /\ selected = NoRow /\ Len(rows) >= 2 /\ visible /\ pc = "loop"

====
